---- MODULE Spec2Model ----
(***************************************************************************)
(* Model of the expression/value subsystem of rust-query (src/value.rs):   *)
(* the ValueBuilder that deduplicates implicit joins and aggregates, the   *)
(* Typed expression nodes that render through it, and the SecretFromSql    *)
(* decoders.                                                               *)
(***************************************************************************)
EXTENDS Integers, Sequences, FiniteSets, TLC

VARIABLES b, last, dec

vars == <<b, last, dec>>

(***************************************************************************)
(* Bounds                                                                  *)
(***************************************************************************)
\* aliases are handed out while the counter is below this cap
MaxAlias == 4

(***************************************************************************)
(* Schema of the chinook test: tables, identity column, foreign keys       *)
(***************************************************************************)
\* alias of the table joined explicitly (InvoiceLine::join(rows))
RootAlias == 0

\* T::ID
ID(T) == "id"

\* sea_query::Expr::col((alias, field)).into()
Col(alias, field) == <<"Column", alias, field>>

\* Field::Str(name)
FieldStr(name) == <<"Str", name>>

(***************************************************************************)
(* Builder Context: MySelect { scope, extra }.  b.next is the alias        *)
(* counter of the scope, b.extra the Source->Alias map in insertion order. *)
(* b.reqs and b.seen are history: every (source, alias) a request          *)
(* returned, and the sources in the order they were first requested.       *)
(***************************************************************************)
\* Source { kind: SourceKind::Implicit(T::NAME), conds }
ImplicitSource(T, conds) == [kind |-> <<"Implicit", T>>, conds |-> conds]

\* Source { kind: SourceKind::Aggregate(aggr), conds }
AggregateSource(aggr, conds) == [kind |-> <<"Aggregate", aggr>>, conds |-> conds]

\* the (field, value-expression) pairs of a condition list
CondSet(conds) == {conds[i] : i \in DOMAIN conds}

\* equality that compares the condition lists position by position
SourceEq_ordered(s, t) == s.kind = t.kind /\ s.conds = t.conds

\* structural equality of two Source Specifications: same kind, same
\* table/subquery, same condition set
SourceEq(s, t) == s.kind = t.kind /\ CondSet(s.conds) = CondSet(t.conds)

\* positions of the cache entries whose key equals source
Entries(extra, source) == {i \in DOMAIN extra : SourceEq(extra[i].source, source)}

\* self.inner.scope.new_alias(): the counter's value, and the counter advanced
new_alias(ctx) == [alias |-> ctx.next, b |-> [ctx EXCEPT !.next = @ + 1]]

\* self.inner.extra.get_or_init(source, new_alias)
get_or_init(ctx, source) ==
    LET hits == Entries(ctx.extra, source) IN
    IF hits # {}
    THEN [alias |-> ctx.extra[CHOOSE i \in hits : \A j \in hits : i <= j].alias, b |-> ctx]
    ELSE LET a == new_alias(ctx) IN
         [alias |-> a.alias,
          b |-> [a.b EXCEPT !.extra = Append(@, [source |-> source, alias |-> a.alias])]]

\* history of the requests, not program state: the source, the alias returned
\* and the operation asked
Noted(r, source, op) ==
    [ret |-> r.alias,
     b |-> [r.b EXCEPT !.reqs = @ \cup {<<source, r.alias, op>>},
                       !.seen = IF \E i \in DOMAIN @ : SourceEq(@[i], source)
                                THEN @ ELSE Append(@, source)]]

\* a request that emits its aggregate again each time
get_aggr_fresh(ctx, aggr, conds) ==
    LET source == AggregateSource(aggr, conds)
        a == new_alias(ctx) IN
    Noted([alias |-> a.alias,
           b |-> [a.b EXCEPT !.extra = Append(@, [source |-> source, alias |-> a.alias])]],
          source, "get_aggr")

\* a request whose alias comes from a scope of its own: the count of the
\* aggregates so far, the session's counter left alone
get_aggr_scope(ctx, aggr, conds) ==
    LET source == AggregateSource(aggr, conds)
        hits == Entries(ctx.extra, source)
        n == Cardinality({i \in DOMAIN ctx.extra : ctx.extra[i].source.kind[1] = "Aggregate"}) IN
    IF hits # {} THEN Noted(get_or_init(ctx, source), source, "get_aggr")
    ELSE Noted([alias |-> RootAlias + 1 + n,
                b |-> [ctx EXCEPT !.extra = Append(@, [source |-> source,
                                                       alias |-> RootAlias + 1 + n])]],
               source, "get_aggr")

\* ValueBuilder::get_aggr
get_aggr(ctx, aggr, conds) ==
    LET source == AggregateSource(aggr, conds) IN
    Noted(get_or_init(ctx, source), source, "get_aggr")

\* a request that allocates its alias before the lookup
get_join_eager(ctx, T, expr) ==
    LET source == ImplicitSource(T, << <<FieldStr(ID(T)), expr>> >>)
        a == new_alias(ctx)
        hits == Entries(ctx.extra, source) IN
    IF hits # {} THEN Noted(get_or_init(a.b, source), source, "get_join")
    ELSE Noted([alias |-> a.alias,
                b |-> [a.b EXCEPT !.extra = Append(@, [source |-> source, alias |-> a.alias])]],
               source, "get_join")

\* a request that stores a fresh alias over the cached one (insert, not
\* get_or_init)
get_join_reinsert(ctx, T, expr) ==
    LET source == ImplicitSource(T, << <<FieldStr(ID(T)), expr>> >>)
        a == new_alias(ctx)
        hits == Entries(ctx.extra, source) IN
    IF hits = {} THEN Noted(get_or_init(ctx, source), source, "get_join")
    ELSE Noted([alias |-> a.alias,
                b |-> [a.b EXCEPT !.extra =
                          [i \in DOMAIN @ |-> IF i \in hits
                                              THEN [source |-> source, alias |-> a.alias]
                                              ELSE @[i]]]],
               source, "get_join")

\* ValueBuilder::get_join::<T>
get_join(ctx, T, expr) ==
    LET source == ImplicitSource(T, << <<FieldStr(ID(T)), expr>> >>) IN
    Noted(get_or_init(ctx, source), source, "get_join")

\* conds.into_iter().map(|x| (Field::Str(x.0), x.1)).collect()
MapConds(conds) == [i \in DOMAIN conds |-> <<FieldStr(conds[i][1]), conds[i][2]>>]

\* a lookup that refuses an empty condition list
get_unique_nonempty(ctx, T, conds) ==
    IF conds = << >> THEN [ret |-> <<"Error", "no conditions">>, b |-> ctx]
    ELSE LET source == ImplicitSource(T, MapConds(conds))
             r == Noted(get_or_init(ctx, source), source, "get_unique") IN
         [ret |-> Col(r.ret, ID(T)), b |-> r.b]

\* a lookup cached under a kind of its own
get_unique_kind(ctx, T, conds) ==
    LET source == [kind |-> <<"Unique", T>>, conds |-> MapConds(conds)]
        r == Noted(get_or_init(ctx, source), source, "get_unique") IN
    [ret |-> Col(r.ret, ID(T)), b |-> r.b]

\* ValueBuilder::get_unique::<T>
get_unique(ctx, T, conds) ==
    LET source == ImplicitSource(T, MapConds(conds))
        r == Noted(get_or_init(ctx, source), source, "get_unique") IN
    [ret |-> Col(r.ret, ID(T)), b |-> r.b]

(***************************************************************************)
(* Expression nodes (impl Typed).  A node is a tuple whose first element   *)
(* names the implementing type:                                            *)
(*   <<"String", v>> <<"Vec<u8>", v>> <<"bool", v>> <<"i64", v>>           *)
(*   <<"f64", v>> <<"UnixEpoch">>                                          *)
(*   <<"Option", X, <<>> >> (None) and <<"Option", X, <<n>> >> (Some(n)),  *)
(*       X the wrapped Typ                                                 *)
(*   <<"Ref", n>> (&T)  <<"Expr", n>>  <<"DynTyped", n>>                   *)
(*   <<"Migrated", d, Typ>> (MigratedExpr, d the erased closure)           *)
(*   <<"Join", T, alias>> (a table joined explicitly)                      *)
(*   <<"Col", n, field, Typ>> (the column field, of type Typ, of the table *)
(*       n renders as)                                                     *)
(*   <<"TableRow", T, idx>> (a row of table T)                             *)
(***************************************************************************)
Tables == {"Track", "Album", "Artist"}

\* sea_query::Value of a literal: SimpleExpr::from(v)
Value(variant, v) == <<"Value", variant, <<v>> >>

\* MyTyp::Sql of a Typ: a table's is i64, a scalar's is itself
Sql(X) == IF X \in Tables \cup {"InvoiceLine"} THEN "i64" ELSE X

\* the sea_query::Value variant of an Sql type
Variant(S) ==
    CASE S = "String" -> "String"
      [] S = "Vec<u8>" -> "Bytes"
      [] S = "bool" -> "Bool"
      [] S = "i64" -> "BigInt"
      [] S = "f64" -> "Double"

\* X::Sql::null().into()
Null(X) == <<"Value", Variant(Sql(X)), <<>> >>

\* impl Typed for String / Vec<u8> / bool / i64 / f64: build_expr
String_build_expr(n, ctx) == [expr |-> Value("String", n[2]), b |-> ctx]
VecU8_build_expr(n, ctx) == [expr |-> Value("Bytes", n[2]), b |-> ctx]
bool_build_expr(n, ctx) == [expr |-> Value("Bool", n[2]), b |-> ctx]
i64_build_expr(n, ctx) == [expr |-> Value("BigInt", n[2]), b |-> ctx]
f64_build_expr(n, ctx) == [expr |-> Value("Double", n[2]), b |-> ctx]

\* a rendering that takes an alias for the pseudo-column
UnixEpoch_build_expr_alias(n, ctx) ==
    [expr |-> <<"Column", <<"RawAlias", "unixepoch('now')">> >>, b |-> new_alias(ctx).b]

\* impl Typed for UnixEpoch: build_expr
UnixEpoch_build_expr(n, ctx) ==
    [expr |-> <<"Column", <<"RawAlias", "unixepoch('now')">> >>, b |-> ctx]

\* Typed::Typ of a node
RECURSIVE Typ(_)
Typ(n) ==
    CASE n[1] \in {"String", "Vec<u8>", "bool", "i64", "f64"} -> n[1]
      [] n[1] = "UnixEpoch" -> "i64"
      [] n[1] = "Option" -> <<"Option", n[2]>>
      [] n[1] \in {"Ref", "Expr", "DynTyped"} -> Typ(n[2])
      [] n[1] = "Migrated" -> n[3]
      [] n[1] = "Join" -> n[2]
      [] n[1] = "Col" -> n[4]
      [] n[1] = "TableRow" -> n[2]

RECURSIVE build_expr(_, _), build_table(_, _)

\* impl Typed for Option<T>: build_expr
Option_build_expr(n, ctx) ==
    IF n[3] # <<>> THEN build_expr(n[3][1], ctx)
    ELSE [expr |-> Null(n[2]), b |-> ctx]

\* a default that joins the table anew for every reference
Typed_build_table_anew(n, ctx) ==
    LET e == build_expr(n, ctx)
        source == ImplicitSource(Typ(n), << <<FieldStr(ID(Typ(n))), e.expr>> >>)
        a == new_alias(e.b)
        r == Noted([alias |-> a.alias,
                    b |-> [a.b EXCEPT !.extra = Append(@, [source |-> source,
                                                           alias |-> a.alias])]],
                   source, "get_join") IN
    [alias |-> r.ret, b |-> r.b]

\* Typed::build_table, the default: b.get_join::<Self::Typ>(self.build_expr(b))
Typed_build_table(n, ctx) ==
    LET e == build_expr(n, ctx)
        r == get_join(e.b, Typ(n), e.expr) IN
    [alias |-> r.ret, b |-> r.b]

\* impl Typed for &T
Ref_build_expr(n, ctx) == build_expr(n[2], ctx)
Ref_build_table(n, ctx) == build_table(n[2], ctx)

\* a handle left with the default build_table of the trait
Expr_build_table_default(n, ctx) ==
    LET e == build_expr(n, ctx)
        r == get_join(e.b, Typ(n), e.expr) IN
    [alias |-> r.ret, b |-> r.b]

\* impl Typed for Expr: self.inner.0.as_ref()
Expr_build_expr(n, ctx) == build_expr(n[2], ctx)
Expr_build_table(n, ctx) == build_table(n[2], ctx)

\* impl Typed for DynTyped: self.0
DynTyped_build_expr(n, ctx) == build_expr(n[2], ctx)
DynTyped_build_table(n, ctx) == build_table(n[2], ctx)

\* DynTyped::erase: DynTypedExpr(Box::new(move |b| self.build_expr(b)))
erase(d) == <<"DynTypedExpr", d>>

\* calling the boxed closure of a DynTypedExpr: (e.0)(b)
DynTypedExpr_call(e, ctx) == DynTyped_build_expr(e[2], ctx)

\* a bridge that renders the prior expression in a context of its own
MigratedExpr_build_expr_own(n, ctx) ==
    [expr |-> DynTypedExpr_call(n[2],
                  [next |-> RootAlias + 1, extra |-> << >>, reqs |-> {}, seen |-> << >>]).expr,
     b |-> ctx]

\* impl Typed for MigratedExpr: self.prev.0(b)
MigratedExpr_build_expr(n, ctx) == DynTypedExpr_call(n[2], ctx)

\* a table joined explicitly renders its own alias and joins nothing
Join_build_table(n, ctx) == [alias |-> n[3], b |-> ctx]
Join_build_expr(n, ctx) == [expr |-> Col(n[3], ID(n[2])), b |-> ctx]

\* a row of a table renders its identity as an integer literal
TableRow_build_expr(n, ctx) == [expr |-> Value("BigInt", n[3]), b |-> ctx]

\* a column accessor: Expr::col((table.build_table(b), field))
Col_build_expr(n, ctx) ==
    LET t == build_table(n[2], ctx) IN
    [expr |-> Col(t.alias, n[3]), b |-> t.b]

\* dynamic dispatch of Typed::build_expr
build_expr(n, ctx) ==
    CASE n[1] = "String" -> String_build_expr(n, ctx)
      [] n[1] = "Vec<u8>" -> VecU8_build_expr(n, ctx)
      [] n[1] = "bool" -> bool_build_expr(n, ctx)
      [] n[1] = "i64" -> i64_build_expr(n, ctx)
      [] n[1] = "f64" -> f64_build_expr(n, ctx)
      [] n[1] = "UnixEpoch" -> UnixEpoch_build_expr(n, ctx)
      [] n[1] = "Option" -> Option_build_expr(n, ctx)
      [] n[1] = "Ref" -> Ref_build_expr(n, ctx)
      [] n[1] = "Expr" -> Expr_build_expr(n, ctx)
      [] n[1] = "DynTyped" -> DynTyped_build_expr(n, ctx)
      [] n[1] = "Migrated" -> MigratedExpr_build_expr(n, ctx)
      [] n[1] = "Join" -> Join_build_expr(n, ctx)
      [] n[1] = "Col" -> Col_build_expr(n, ctx)
      [] n[1] = "TableRow" -> TableRow_build_expr(n, ctx)

\* dynamic dispatch of Typed::build_table: the impls that override it, else
\* the default
build_table(n, ctx) ==
    CASE n[1] = "Ref" -> Ref_build_table(n, ctx)
      [] n[1] = "Expr" -> Expr_build_table(n, ctx)
      [] n[1] = "DynTyped" -> DynTyped_build_table(n, ctx)
      [] n[1] = "Join" -> Join_build_table(n, ctx)
      [] OTHER -> Typed_build_table(n, ctx)

\* Expr::new(val): Expr { inner: DynTyped(Rc::new(val)) }
Expr_new(val) == <<"Expr", val>>

\* the DynTyped inside an Expr: e.inner
Inner(e) == <<"DynTyped", e[2]>>

\* impl Clone for DynTyped: Self(self.0.clone()), a second Rc to the same node
DynTyped_clone(d) == <<"DynTyped", d[2]>>

\* impl Clone for Expr: Self { inner: self.inner.clone(), .. }
Expr_clone(e) == <<"Expr", DynTyped_clone(Inner(e))[2]>>

\* IntoExpr::into_expr
RECURSIVE into_expr(_)
into_expr(n) ==
    CASE n[1] = "Expr" -> n
      [] n[1] = "Ref" -> into_expr(n[2])
      [] n[1] = "Option" ->
            Expr_new(<<"Option", n[2],
                       IF n[3] = <<>> THEN <<>> ELSE <<Inner(into_expr(n[3][1]))>> >>)
      [] OTHER -> Expr_new(n)

\* Expr::_migrate(prev), T the type of the new expression
Expr_migrate(prev, T) == Expr_new(<<"Migrated", erase(Inner(into_expr(prev))), T>>)

(***************************************************************************)
(* Decoding: SecretFromSql::from_sql over rusqlite's ValueRef.             *)
(* A ValueRef is <<"Null">>, <<"Integer", i>>, <<"Real", f>>,              *)
(* <<"Text", s>> or <<"Blob", bytes>>.  A decoded type is <<"i64">>,       *)
(* <<"f64">>, <<"bool">>, <<"String">>, <<"Vec<u8>">>, <<"TableRow", T>>   *)
(* or <<"Option", t>>.  A result is <<"Ok", v>> or <<"Err", e>>.           *)
(***************************************************************************)
\* a text that is not UTF-8
BadText == "\\xFF"

Ok(v) == <<"Ok", v>>
Err(e) == <<"Err", e>>

\* ValueRef::data_type
data_type(value) == value[1]

\* ValueRef::as_i64
as_i64(value) == IF value[1] = "Integer" THEN Ok(value[2]) ELSE Err("InvalidType")

\* ValueRef::as_f64
as_f64(value) == IF value[1] = "Real" THEN Ok(value[2]) ELSE Err("InvalidType")

\* ValueRef::as_str
as_str(value) ==
    IF value[1] # "Text" THEN Err("InvalidType")
    ELSE IF value[2] = BadText THEN Err("Utf8Error") ELSE Ok(value[2])

\* ValueRef::as_blob
as_blob(value) == IF value[1] = "Blob" THEN Ok(value[2]) ELSE Err("InvalidType")

\* impl SecretFromSql for TableRow<T>
TableRow_from_sql(t, value) ==
    LET r == as_i64(value) IN
    IF r[1] = "Err" THEN r ELSE Ok(<<"TableRow", t[2], r[2]>>)

\* impl SecretFromSql for i64
i64_from_sql(value) ==
    LET r == as_i64(value) IN IF r[1] = "Err" THEN r ELSE Ok(<<"i64", r[2]>>)

\* a decoder that also takes an integer for a float
f64_from_sql_lenient(value) ==
    IF value[1] = "Integer" THEN Ok(<<"f64", value[2]>>)
    ELSE LET r == as_f64(value) IN IF r[1] = "Err" THEN r ELSE Ok(<<"f64", r[2]>>)

\* impl SecretFromSql for f64
f64_from_sql(value) ==
    LET r == as_f64(value) IN IF r[1] = "Err" THEN r ELSE Ok(<<"f64", r[2]>>)

\* impl SecretFromSql for bool
bool_from_sql(value) ==
    LET r == as_i64(value) IN IF r[1] = "Err" THEN r ELSE Ok(<<"bool", r[2] # 0>>)

\* impl SecretFromSql for String
String_from_sql(value) ==
    LET r == as_str(value) IN IF r[1] = "Err" THEN r ELSE Ok(<<"String", r[2]>>)

\* impl SecretFromSql for Vec<u8>
VecU8_from_sql(value) ==
    LET r == as_blob(value) IN IF r[1] = "Err" THEN r ELSE Ok(<<"Vec<u8>", r[2]>>)

\* the name of the Typ a decoded type comes from
TypName(t) == IF t[1] = "TableRow" THEN t[2] ELSE t[1]

RECURSIVE from_sql(_, _)

\* a decoder that hands NULL to the wrapped type's decoder
Option_from_sql_nocheck(t, value) ==
    LET r == from_sql(t[2], value) IN
    IF r[1] = "Err" THEN r ELSE Ok(<<"Option", TypName(t[2]), <<r[2]>> >>)

\* impl SecretFromSql for Option<T>
Option_from_sql(t, value) ==
    IF data_type(value) = "Null" THEN Ok(<<"Option", TypName(t[2]), <<>> >>)
    ELSE LET r == from_sql(t[2], value) IN
         IF r[1] = "Err" THEN r ELSE Ok(<<"Option", TypName(t[2]), <<r[2]>> >>)

\* SecretFromSql::from_sql of the decoded type t
from_sql(t, value) ==
    CASE t[1] = "TableRow" -> TableRow_from_sql(t, value)
      [] t[1] = "i64" -> i64_from_sql(value)
      [] t[1] = "f64" -> f64_from_sql(value)
      [] t[1] = "bool" -> bool_from_sql(value)
      [] t[1] = "String" -> String_from_sql(value)
      [] t[1] = "Vec<u8>" -> VecU8_from_sql(value)
      [] t[1] = "Option" -> Option_from_sql(t, value)

\* MyTyp::Out of a Typ
Out(X) ==
    IF X \in Tables \cup {"InvoiceLine"} THEN <<"TableRow", X>> ELSE <<X>>

\* MyTyp::Out of the Typ of a value: Option<T>::Out = Option<T::Out>
OutOf(n) == IF n[1] = "Option" THEN <<"Option", Out(n[2])>> ELSE Out(Typ(n))

\* the value the storage engine holds for a literal expression
Stored(expr) ==
    IF expr[3] = <<>> THEN <<"Null">>
    ELSE CASE expr[2] = "BigInt" -> <<"Integer", expr[3][1]>>
           [] expr[2] = "Double" -> <<"Real", expr[3][1]>>
           [] expr[2] = "Bool" -> <<"Integer", IF expr[3][1] THEN 1 ELSE 0>>
           [] expr[2] = "String" -> <<"Text", expr[3][1]>>
           [] expr[2] = "Bytes" -> <<"Blob", expr[3][1]>>

(***************************************************************************)
(* The query under construction: the chinook test's invoice_info, whose    *)
(* columns are foreign-key paths from the explicitly joined InvoiceLine.    *)
(***************************************************************************)
ColNode(n, field, T) == <<"Col", n, field, T>>

ivl == <<"Join", "InvoiceLine", RootAlias>>
track == ColNode(ivl, "track", "Track")
album == ColNode(track, "album", "Album")
artist == ColNode(album, "artist", "Artist")
track_name == ColNode(track, "name", "String")
artist_name == ColNode(artist, "name", "String")

UnixEpoch == <<"UnixEpoch">>
None(X) == <<"Option", X, <<>> >>
Some(X, n) == <<"Option", X, <<n>> >>

\* literal nodes, UnixEpoch and absent Options: the pure scalar nodes
PureNodes ==
    {<<"String", "a">>, <<"Vec<u8>", <<1>> >>, <<"bool", TRUE>>, <<"i64", 1>>,
     <<"f64", 1>>, UnixEpoch, None("i64"), None("String"), None("Track")}

\* nodes whose rendering reaches a table reference
PathNodes ==
    {track, album, artist, track_name, artist_name, Some("Track", track)}

\* shared, erased and bridged handles
HandleNodes ==
    {Expr_new(track_name), <<"DynTyped", album>>, <<"Ref", artist_name>>,
     Some("i64", <<"i64", 1>>),
     Expr_migrate(track_name, "String"), Expr_migrate(<<"i64", 1>>, "i64"),
     Expr_migrate(artist, "Artist"), Expr_migrate(None("i64"), "i64")}

Nodes == PureNodes \cup PathNodes \cup HandleNodes \cup {ivl}

\* table-typed nodes rendered as a table
TableNodes ==
    {track, album, artist, Expr_new(track), <<"Ref", track>>, <<"DynTyped", album>>,
     Expr_migrate(album, "Album"), Expr_new(ivl)}

\* arguments of direct requests: <<T, expr>>, <<aggr, conds>>, <<T, conds>>
JoinArgs ==
    {<<"Track", Col(RootAlias, "track")>>, <<"Track", Value("BigInt", 1)>>,
     <<"Album", Col(RootAlias, "track")>>}
AggrArgs ==
    {<<"q1", << >> >>, <<"q1", << <<FieldStr("id"), Col(RootAlias, "id")>> >> >>,
     <<"q2", << >> >>}
UniqueArgs ==
    {<<"Track", << <<"id", Col(RootAlias, "track")>> >> >>,
     <<"Track", << <<"name", Value("String", "a")>>, <<"album", Value("BigInt", 1)>> >> >>,
     <<"Track", << <<"album", Value("BigInt", 1)>>, <<"name", Value("String", "a")>> >> >>}

NoDec == [pc |-> "start"]

InitB == [next |-> RootAlias + 1, extra |-> << >>, reqs |-> {}, seen |-> << >>]

Init ==
    /\ b = InitB
    /\ last = [op |-> "init"]
    /\ dec = NoDec

\* one request of the query builder: get_join
Join ==
    \E a \in JoinArgs :
        LET T == a[1]
            e == a[2]
            r == get_join(b, T, e) IN
        /\ r.b.next <= MaxAlias
        /\ b' = r.b
        /\ last' = [op |-> "get_join", table |-> T, expr |-> e, ret |-> r.ret]
        /\ UNCHANGED dec

\* get_aggr
Aggr ==
    \E a \in AggrArgs :
        LET q == a[1]
            c == a[2]
            r == get_aggr(b, q, c) IN
        /\ r.b.next <= MaxAlias
        /\ b' = r.b
        /\ last' = [op |-> "get_aggr", aggr |-> q, conds |-> c, ret |-> r.ret]
        /\ UNCHANGED dec

\* get_unique
Unique ==
    \E a \in UniqueArgs :
        LET T == a[1]
            c == a[2]
            r == get_unique(b, T, c) IN
        /\ r.b.next <= MaxAlias
        /\ b' = r.b
        /\ last' = [op |-> "get_unique", table |-> T, conds |-> c, ret |-> r.ret]
        /\ UNCHANGED dec

\* rendering a node as an expression
Render ==
    \E n \in PathNodes :
        LET r == build_expr(n, b) IN
        /\ r.b.next <= MaxAlias
        /\ b' = r.b
        /\ last' = [op |-> "build_expr", node |-> n, ret |-> r.expr]
        /\ UNCHANGED dec

\* rendering a table-typed node as a table
RenderTable ==
    \E n \in TableNodes :
        LET r == build_table(n, b) IN
        /\ r.b.next <= MaxAlias
        /\ b' = r.b
        /\ last' = [op |-> "build_table", node |-> n, ret |-> r.alias]
        /\ UNCHANGED dec

Next == Join \/ Aggr \/ Unique \/ Render \/ RenderTable

Spec == Init /\ [][Next]_vars

\* rendering any node, handles and scalars included
RenderAny ==
    \E n \in Nodes :
        LET r == build_expr(n, b) IN
        /\ r.b.next <= MaxAlias
        /\ b' = r.b
        /\ last' = [op |-> "build_expr", node |-> n, ret |-> r.expr]
        /\ UNCHANGED dec

NextRender == RenderAny \/ RenderTable \/ Join

SpecRender == Init /\ [][NextRender]_vars

(***************************************************************************)
(* Converting a value to SQL, storing it and decoding it again; and        *)
(* decoding an arbitrary stored value as an arbitrary type.                *)
(***************************************************************************)
\* MyTyp::TYP, the hash::ColumnType of a decoded type
RECURSIVE TYP(_)
TYP(t) ==
    CASE t[1] \in {"TableRow", "i64", "bool"} -> "Integer"
      [] t[1] = "f64" -> "Float"
      [] t[1] = "String" -> "String"
      [] t[1] = "Vec<u8>" -> "Blob"
      [] t[1] = "Option" -> TYP(t[2])

\* MyTyp::NULLABLE
NULLABLE(t) == t[1] = "Option"

DecValues ==
    {<<"i64", 0>>, <<"i64", 7>>, <<"f64", 1>>, <<"bool", TRUE>>, <<"bool", FALSE>>,
     <<"String", "a">>, <<"String", "">>, <<"Vec<u8>", <<1>> >>, <<"Vec<u8>", << >> >>,
     <<"TableRow", "Track", 3>>}

\* values converted to SQL: plain, present and absent
DecNodes ==
    DecValues \cup {Some(Typ(v), v) : v \in DecValues}
              \cup {None(Typ(v)) : v \in DecValues}

ScalarTypes ==
    {<<"i64">>, <<"f64">>, <<"bool">>, <<"String">>, <<"Vec<u8>">>, <<"TableRow", "Track">>}

DecTypes == ScalarTypes \cup {<<"Option", t>> : t \in ScalarTypes}

RawValues ==
    {<<"Null">>, <<"Integer", 0>>, <<"Integer", 7>>, <<"Real", 1>>, <<"Text", "a">>,
     <<"Text", "7">>, <<"Text", BadText>>, <<"Blob", <<1>> >>, <<"Blob", << >> >>}

\* value.into_expr() rendered: build_expr of the Expr
Convert ==
    /\ dec.pc = "start"
    /\ \E n \in DecNodes :
        LET r == build_expr(into_expr(n), b) IN
        /\ dec' = [pc |-> "rendered", node |-> n, expr |-> r.expr]
        /\ b' = r.b
    /\ UNCHANGED last

\* the storage engine evaluates the literal
Store ==
    /\ dec.pc = "rendered"
    /\ dec' = [pc |-> "stored", node |-> dec.node, expr |-> dec.expr,
               raw |-> Stored(dec.expr)]
    /\ UNCHANGED <<b, last>>

\* the stored value is decoded as the Out type of the value's Typ
Decode ==
    /\ dec.pc = "stored"
    /\ dec' = [pc |-> "decoded", node |-> dec.node, expr |-> dec.expr, raw |-> dec.raw,
               typ |-> OutOf(dec.node), res |-> from_sql(OutOf(dec.node), dec.raw)]
    /\ UNCHANGED <<b, last>>

\* any stored value is decoded as any type
Read ==
    /\ dec.pc = "start"
    /\ \E t \in DecTypes, v \in RawValues :
        dec' = [pc |-> "read", raw |-> v, typ |-> t, res |-> from_sql(t, v)]
    /\ UNCHANGED <<b, last>>

NextDecode == Convert \/ Store \/ Decode \/ Read

SpecDecode == Init /\ [][NextDecode]_vars

(***************************************************************************)
(* Properties of the Builder Context                                       *)
(***************************************************************************)
\* the alias the cache holds for source (source is cached)
AliasOf(extra, source) ==
    extra[CHOOSE i \in Entries(extra, source) : TRUE].alias

\* the position of source in the cache: its place in the emitted statement
PosOf(extra, source) == CHOOSE i \in Entries(extra, source) : TRUE

\* the last operation returned an alias that is not the newest: a cache hit
LastHit == last.op \in {"get_join", "get_aggr", "build_table"} /\ last.ret < b.next - 1

\* C1: requests for structurally equal Source Specifications (same kind, same
\* table or statement, same condition list) all returned the same alias, and
\* the cache holds exactly one entry for every requested specification.
C1_DedupIdempotence ==
    /\ \A p, q \in b.reqs :
          (p[1].kind = q[1].kind /\ p[1].conds = q[1].conds) => p[2] = q[2]
    /\ \A p \in b.reqs :
          /\ Cardinality(Entries(b.extra, p[1])) = 1
          /\ AliasOf(b.extra, p[1]) = p[2]

\* an aggregate was requested again and answered from the cache, other
\* sources being cached too
C1_Witness ==
    /\ last.op = "get_aggr" /\ LastHit
    /\ Len(b.extra) >= 2
    /\ \E p \in b.reqs : p[1] = AggregateSource(last.aggr, last.conds) /\ p[2] = last.ret

\* C2: the Source->Alias map is injective; the aliases of the cache, in the
\* order of the misses, are strictly increasing, are above the explicitly
\* joined table's alias and below the counter.
C2_AliasUnique ==
    /\ \A i, j \in DOMAIN b.extra :
          b.extra[i].alias = b.extra[j].alias => i = j
    /\ \A i, j \in DOMAIN b.extra : i < j => b.extra[i].alias < b.extra[j].alias
    /\ \A i \in DOMAIN b.extra : RootAlias < b.extra[i].alias /\ b.extra[i].alias < b.next

\* joins and aggregates are cached together
C2_Witness ==
    /\ Len(b.extra) >= 3
    /\ \E i, j \in DOMAIN b.extra :
          b.extra[i].source.kind[1] = "Aggregate" /\ b.extra[j].source.kind[1] = "Implicit"

\* the Source Specification of the request last records
LastSource(l) ==
    IF l.op = "get_join"
    THEN ImplicitSource(l.table, << <<FieldStr(ID(l.table)), l.expr>> >>)
    ELSE AggregateSource(l.aggr, l.conds)

\* C3: a get_join or get_aggr for a cached Source Specification returns the
\* cached alias and leaves the counter and the cache as they were; a miss
\* returns the counter's value, advances it by one and appends one entry.
C3_HitLeavesContext ==
    [][last'.op \in {"get_join", "get_aggr"} =>
          LET source == LastSource(last') IN
          IF Entries(b.extra, source) # {}
          THEN /\ last'.ret = AliasOf(b.extra, source)
               /\ b'.next = b.next
               /\ b'.extra = b.extra
          ELSE /\ last'.ret = b.next
               /\ b'.next = b.next + 1
               /\ b'.extra = Append(b.extra, [source |-> source, alias |-> b.next])]_vars

\* a join was requested again and answered from the cache
C3_Witness ==
    /\ last.op = "get_join" /\ LastHit
    /\ Entries(b.extra, LastSource(last)) # {}

\* C4: get_unique on T with [(T::ID, e)] and get_join on T with e were given
\* the same alias, one cache entry serving both; get_unique returns the
\* column T::ID of the alias cached for its conditions.
C4_UniqueSharesJoin ==
    /\ \A p, q \in b.reqs :
          (/\ p[3] = "get_join" /\ q[3] = "get_unique"
           /\ p[1].kind = q[1].kind /\ p[1].conds = q[1].conds)
          => (p[2] = q[2] /\ Cardinality(Entries(b.extra, p[1])) = 1)
    /\ \A T \in Tables, e \in {Col(RootAlias, "track"), Value("BigInt", 1)} :
          LET u == get_unique(b, T, << <<ID(T), e>> >>)
              j == get_join(b, T, e)
              ju == get_join(u.b, T, e)
              uj == get_unique(j.b, T, << <<ID(T), e>> >>) IN
          /\ u.ret = Col(j.ret, ID(T))
          /\ ju.ret = j.ret /\ ju.b.extra = u.b.extra
          /\ uj.ret = u.ret /\ uj.b.extra = j.b.extra
    /\ last.op = "get_unique" =>
          last.ret = Col(AliasOf(b.extra, ImplicitSource(last.table, MapConds(last.conds))),
                         ID(last.table))

\* a uniqueness lookup by identity was answered by the join cached before
C4_Witness ==
    /\ last.op = "get_unique"
    /\ last.ret[2] < b.next - 1
    /\ \E p, q \in b.reqs :
          p[3] = "get_join" /\ q[3] = "get_unique" /\ p[1] = q[1] /\ p[2] = last.ret[2]

\* C5: a Source Specification first requested before another has the lower
\* alias and the earlier place in the cache, and no step changes the alias or
\* the place of a specification requested before.
C5_FirstSeenOrder ==
    /\ [](\A i, j \in DOMAIN b.seen :
             i < j => /\ Entries(b.extra, b.seen[i]) # {}
                      /\ Entries(b.extra, b.seen[j]) # {}
                      /\ AliasOf(b.extra, b.seen[i]) < AliasOf(b.extra, b.seen[j])
                      /\ PosOf(b.extra, b.seen[i]) < PosOf(b.extra, b.seen[j]))
    /\ [][\A i \in DOMAIN b.seen :
             /\ b'.seen[i] = b.seen[i]
             /\ AliasOf(b'.extra, b.seen[i]) = AliasOf(b.extra, b.seen[i])
             /\ PosOf(b'.extra, b.seen[i]) = PosOf(b.extra, b.seen[i])]_vars

\* three specifications were requested, and the first again after the third
C5_Witness ==
    /\ Len(b.seen) >= 3
    /\ last.op = "get_join"
    /\ LastSource(last) = b.seen[1]

\* the node a handle stands for: wrappers, bridges and Some removed
RECURSIVE Under(_)
Under(n) ==
    CASE n[1] \in {"Ref", "Expr", "DynTyped", "DynTypedExpr"} -> Under(n[2])
      [] n[1] = "Migrated" -> Under(n[2])
      [] n[1] = "Option" /\ n[3] # << >> -> Under(n[3][1])
      [] OTHER -> n

\* the foreign-key path prefixes that rendering the path n as a table joins
RECURSIVE Chain(_)
Chain(n) == IF n[1] = "Col" THEN {n} \cup Chain(Under(n[2])) ELSE {}

\* the prefixes joined by the operation last records
LastJoins ==
    IF last.op = "build_table" THEN Chain(Under(last.node))
    ELSE IF last.op = "build_expr" /\ Under(last.node)[1] = "Col"
         THEN Chain(Under(Under(last.node)[2]))
         ELSE {}

\* whether the joins of all prefixes of the path n are cached
RECURSIVE KeyOf(_, _), PathCached(_, _)

\* the key of the path prefix n: its target table, identity column = the
\* column of the parent's alias
KeyOf(n, extra) ==
    LET parent == Under(n[2])
        palias == IF parent[1] = "Join" THEN parent[3]
                  ELSE AliasOf(extra, KeyOf(parent, extra)) IN
    ImplicitSource(n[4], << <<FieldStr(ID(n[4])), Col(palias, n[3])>> >>)

PathCached(n, extra) ==
    \/ n[1] = "Join"
    \/ /\ PathCached(Under(n[2]), extra)
       /\ Entries(extra, KeyOf(n, extra)) # {}

\* C6: every foreign-key path prefix has at most one join in the cache; after
\* a rendering, each prefix it walks has exactly one, keyed on (target table,
\* identity column = the parent's expression), every request for it was given
\* that alias, and the rendering's result refers to it; rendering
\* ivl.track().name() and ivl.track().album().artist().name() in one context
\* adds at most three joins.
C6_SharedPrefixJoinedOnce ==
    /\ \A n \in {track, album, artist} :
          PathCached(Under(n[2]), b.extra) =>
              Cardinality(Entries(b.extra, KeyOf(n, b.extra))) <= 1
    /\ \A n \in LastJoins :
          /\ PathCached(n, b.extra)
          /\ Cardinality(Entries(b.extra, KeyOf(n, b.extra))) = 1
          /\ \A p \in b.reqs :
                SourceEq(p[1], KeyOf(n, b.extra)) =>
                    p[2] = AliasOf(b.extra, KeyOf(n, b.extra))
    /\ (last.op = "build_table" /\ Under(last.node)[1] = "Col") =>
          last.ret = AliasOf(b.extra, KeyOf(Under(last.node), b.extra))
    /\ (last.op = "build_expr" /\ Under(last.node)[1] = "Col"
            /\ Under(Under(last.node)[2])[1] = "Col") =>
          last.ret = Col(AliasOf(b.extra, KeyOf(Under(Under(last.node)[2]), b.extra)),
                         Under(last.node)[3])
    /\ LET r1 == build_expr(track_name, b)
           r2 == build_expr(artist_name, r1.b)
           r3 == build_expr(track_name, r2.b) IN
       /\ Len(r2.b.extra) <= Len(b.extra) + 3
       /\ r3.b.extra = r2.b.extra
       /\ r3.expr = r1.expr
       /\ r1.expr = Col(AliasOf(r2.b.extra, KeyOf(track, r2.b.extra)), "name")
       /\ r2.expr = Col(AliasOf(r2.b.extra, KeyOf(artist, r2.b.extra)), "name")

\* ivl.track().name() was rendered after the chain through ivl.track() to the
\* artist: its Track join is the one the chain cached
C6_Witness ==
    /\ last.op = "build_expr" /\ last.node = track_name
    /\ last.ret[2] < b.next - 1
    /\ \A n \in {track, album, artist} : PathCached(n, b.extra)
    /\ last.ret = Col(AliasOf(b.extra, KeyOf(track, b.extra)), "name")

(***************************************************************************)
(* Properties of conversion and decoding                                   *)
(***************************************************************************)
\* the storage class a column of hash::ColumnType holds
StorageClass(typ) ==
    CASE typ = "Integer" -> "Integer"
      [] typ = "Float" -> "Real"
      [] typ = "String" -> "Text"
      [] typ = "Blob" -> "Blob"

\* the stored value's storage class is one the decoded type expects
Agrees(t, value) ==
    \/ value[1] = StorageClass(TYP(t))
    \/ NULLABLE(t) /\ value[1] = "Null"

\* C7: an absent nullable value renders a typed SQL NULL, is stored as NULL
\* and decodes through the Option decoder to None; a present value renders the
\* inner value's SQL and decodes to Some of the original value.
C7_NullabilityRoundTrip ==
    (dec.pc = "decoded" /\ dec.node[1] = "Option") =>
        IF dec.node[3] = << >>
        THEN /\ dec.expr = <<"Value", Variant(Sql(dec.node[2])), << >> >>
             /\ dec.raw = <<"Null">>
             /\ dec.res = Ok(dec.node)
        ELSE /\ dec.expr = build_expr(dec.node[3][1], b).expr
             /\ dec.raw # <<"Null">>
             /\ dec.res = Ok(dec.node)

\* an absent table reference went through conversion, storage and decoding
C7_Witness ==
    /\ dec.pc = "decoded"
    /\ dec.node = None("Track")
    /\ dec.typ = <<"Option", <<"TableRow", "Track">> >>
    /\ dec.res = Ok(None("Track"))

\* C8: decoding a stored value whose storage class is not one the type
\* expects returns an error; a non-nullable type given NULL returns an error;
\* Option<T> given a non-NULL value of the wrong class returns the error of
\* T's decoder, not None.
C8_DecodeFailureDetected ==
    dec.pc \in {"read", "decoded"} =>
        /\ ~Agrees(dec.typ, dec.raw) => dec.res[1] = "Err"
        /\ (~NULLABLE(dec.typ) /\ dec.raw = <<"Null">>) => dec.res[1] = "Err"
        /\ (NULLABLE(dec.typ) /\ dec.raw # <<"Null">> /\ ~Agrees(dec.typ, dec.raw)) =>
              /\ dec.res = from_sql(dec.typ[2], dec.raw)
              /\ dec.res[1] = "Err"

\* a text was read as an Option<i64>
C8_Witness ==
    /\ dec.pc = "read"
    /\ dec.typ = <<"Option", <<"i64">> >>
    /\ dec.raw = <<"Text", "7">>
    /\ dec.res = Err("InvalidType")

(***************************************************************************)
(* Properties of rendering                                                 *)
(***************************************************************************)
\* prior-schema expressions and the type each is bridged to
Bridged ==
    {<<track_name, "String">>, <<artist_name, "String">>, <<artist, "Artist">>,
     <<album, "Album">>, <<Expr_new(track_name), "String">>, <<<<"i64", 1>>, "i64">>,
     <<<<"String", "a">>, "String">>, <<None("i64"), "i64">>,
     <<Some("i64", <<"i64", 1>>), "i64">>, <<UnixEpoch, "i64">>,
     <<<<"Ref", track_name>>, "String">>}

\* the program state of a Builder Context
State(ctx) == <<ctx.next, ctx.extra>>

\* C9: in every Builder Context, Expr::_migrate(e) renders to the expression
\* e renders to there, with the same effect on the context; a bridged
\* expression that was rendered returned what the prior expression renders.
C9_MigrationTransparent ==
    /\ \A a \in Bridged :
          LET m == build_expr(Expr_migrate(a[1], a[2]), b)
              o == build_expr(a[1], b) IN
          m.expr = o.expr /\ State(m.b) = State(o.b)
    /\ (last.op = "build_expr" /\ last.node[1] = "Expr" /\ last.node[2][1] = "Migrated") =>
          last.ret = build_expr(Under(last.node), b).expr

\* the bridged ivl.track().name() was rendered when the Track join was not
\* the first the context had cached
C9_Witness ==
    /\ last.op = "build_expr"
    /\ last.node = Expr_migrate(track_name, "String")
    /\ last.ret[1] = "Column" /\ last.ret[2] > RootAlias + 1

\* C10: rendering a pure scalar node (a literal, UnixEpoch, an absent Option)
\* leaves the alias counter and the cache as they were, in every context and
\* in every step; a build_expr step that adds a cache entry rendered a node
\* that walks a table reference.
C10_ScalarRenderingNoEffect ==
    /\ [](\A n \in PureNodes : State(build_expr(n, b).b) = State(b))
    /\ [][(last'.op = "build_expr" /\ last'.node \in PureNodes) =>
             State(b') = State(b)]_vars
    /\ [][(last'.op = "build_expr" /\ State(b') # State(b)) =>
             (Under(last'.node)[1] = "Col" /\ Chain(Under(Under(last'.node)[2])) # {})]_vars

\* UnixEpoch was rendered in a context that holds joins
C10_Witness ==
    /\ last.op = "build_expr" /\ last.node = UnixEpoch
    /\ last.ret = <<"Column", <<"RawAlias", "unixepoch('now')">> >>
    /\ Len(b.extra) >= 2

(***************************************************************************)
(* Totality of the requests                                                *)
(***************************************************************************)
\* expressions and condition lists the requests are tried on in every context
TotalExprs ==
    {Col(RootAlias, "track"), Value("BigInt", 1), Null("i64"),
     <<"Column", <<"RawAlias", "unixepoch('now')">> >>}
TotalConds ==
    {<< >>,
     << <<"id", Col(RootAlias, "track")>> >>,
     << <<"name", Value("String", "a")>>, <<"album", Value("BigInt", 1)>> >>,
     << <<"name", Value("String", "a")>>, <<"name", Value("String", "a")>> >>}
TotalAggrConds == {MapConds(c) : c \in TotalConds}

\* the request answered with alias a for source, leaving context ctx2: a is
\* an allocated alias, the one the cache of ctx2 holds for source, and the
\* cache grew by at most the one entry
Answered(ctx, ctx2, source, a) ==
    /\ a \in (RootAlias + 1) .. (ctx2.next - 1)
    /\ Entries(ctx2.extra, source) # {}
    /\ AliasOf(ctx2.extra, source) = a
    /\ ctx2.next \in {ctx.next, ctx.next + 1}
    /\ Len(ctx2.extra) = Len(ctx.extra) + (ctx2.next - ctx.next)

\* C11: in every reachable Builder Context, for every table, statement,
\* expression and condition list (the empty one included), get_join and
\* get_aggr return an allocated alias that the cache holds for the request's
\* source, and get_unique returns the identity column of such an alias; no
\* request ends without one.
C11_RequestsTotal ==
    /\ \A T \in Tables, e \in TotalExprs :
          LET r == get_join(b, T, e) IN
          Answered(b, r.b, ImplicitSource(T, << <<FieldStr(ID(T)), e>> >>), r.ret)
    /\ \A q \in {"q1", "q2"}, c \in TotalAggrConds :
          LET r == get_aggr(b, q, c) IN
          Answered(b, r.b, AggregateSource(q, c), r.ret)
    /\ \A T \in Tables, c \in TotalConds :
          LET r == get_unique(b, T, c) IN
          /\ r.ret[1] = "Column"
          /\ r.ret[3] = ID(T)
          /\ Answered(b, r.b, ImplicitSource(T, MapConds(c)), r.ret[2])
    /\ last.op \in {"get_join", "get_aggr"} => last.ret \in (RootAlias + 1) .. (b.next - 1)
    /\ last.op = "get_unique" =>
          (last.ret[1] = "Column" /\ last.ret[2] \in (RootAlias + 1) .. (b.next - 1))

\* an aggregate with no conditions was requested for the first time in a
\* context that already held two sources, and got the newest alias
C11_Witness ==
    /\ last.op = "get_aggr" /\ last.conds = << >>
    /\ last.ret = b.next - 1
    /\ Len(b.extra) >= 3
    /\ b.extra[Len(b.extra)].source = AggregateSource(last.aggr, << >>)

(***************************************************************************)
(* Condition order of a unique lookup                                      *)
(***************************************************************************)
\* condition lists with the same pairs, listed in the same or another order
SamePairs(c1, c2) ==
    \A x \in {c1[i] : i \in DOMAIN c1} \cup {c2[i] : i \in DOMAIN c2} :
        (\E i \in DOMAIN c1 : c1[i] = x) /\ (\E i \in DOMAIN c2 : c2[i] = x)

\* cache entries for table kind whose conditions are the pairs of conds
PairEntries(extra, kind, conds) ==
    {i \in DOMAIN extra : extra[i].source.kind = kind /\ SamePairs(extra[i].source.conds, conds)}

TableBase == {ivl, track, album, artist, <<"TableRow", "Track", 1>>}

\* the handles on a node: Expr, DynTyped, a clone of either, a reference,
\* and handles on handles
Handles(n) ==
    {Expr_new(n), <<"DynTyped", n>>, Expr_clone(Expr_new(n)),
     DynTyped_clone(<<"DynTyped", n>>), <<"Ref", n>>,
     <<"Ref", Expr_new(n)>>, Expr_new(<<"Ref", n>>), Inner(Expr_clone(Expr_new(n)))}

IsHandle(n) == n[1] \in {"Expr", "DynTyped", "Ref"}

\* C13: in every reachable Builder Context, build_table on an Expr, a
\* DynTyped, a clone of either or a reference to a table-typed node returns
\* the alias build_table returns on the node itself and leaves the same
\* context; a handle rendered by a step changes the context exactly as its
\* node would have, so a handle never adds a join of its own.
C13_HandlesTransparent ==
    /\ [](\A n \in TableBase : \A h \in Handles(n) :
             LET rh == build_table(h, b)
                 rn == build_table(n, b) IN
             rh.alias = rn.alias /\ rh.b = rn.b)
    /\ [][(last'.op = "build_table" /\ IsHandle(last'.node))
          => LET rn == build_table(last'.node[2], b) IN
             last'.ret = rn.alias /\ b' = rn.b]_vars

\* a handle on the explicitly joined table was rendered as a table in a
\* context that holds joins: it returned the table's own alias, and a handle
\* on a referenced table returns the alias cached for it
C13_Witness ==
    /\ last.op = "build_table"
    /\ last.node = Expr_new(ivl)
    /\ last.ret = RootAlias
    /\ Entries(b.extra, KeyOf(track, b.extra)) # {}
    /\ build_table(<<"Ref", track>>, b).alias = AliasOf(b.extra, KeyOf(track, b.extra))

====
